---- MODULE Spec2Model ----
(***************************************************************************)
(* CodeliaInstalledAgent (tools/terminal_bench_python_adapter/             *)
(* codelia_agent.py): the constructor's normalizers, the debug-flag scan,  *)
(* the model selector and model-config document, and the setup / run       *)
(* coroutines with their awaits on environment.exec and upload_file.       *)
(*                                                                         *)
(* Python strings are sequences of one-character strings, so that strip,   *)
(* lower and split are computed and not assumed.  Python values are        *)
(* records of one shape, tagged by kind.                                   *)
(***************************************************************************)
EXTENDS Integers, Sequences, FiniteSets, TLC

VARIABLES
    pc,              \* position of the host lifecycle / of the running coroutine (awaits at lines 222, 229, 255, 277)
    args,            \* the keyword arguments the constructor was called with (lines 21-34)
    self,            \* the instance's fields after __init__ (lines 35-53)
    dirs,            \* config.json of logs_dir (dirs[1]) and of each ancestor, nearest first (line 126)
    auth_exists,     \* whether the local auth file exists right now (lines 228, 288)
    os_environ,      \* the API-key variables set (non-empty) in the adapter's process (lines 262-265)
    calls,           \* the calls made on the environment object, in order (lines 222, 229, 255, 277)
    locals,          \* run's local variables that live across its awaits (lines 237-240, 260)
    metadata,        \* context.metadata (lines 279-290)
    metadata_writes, \* number of assignments to context.metadata (line 279)
    exc,             \* the exception the last constructor / coroutine raised ("none" if none)
    ret              \* the value returned by a direct call of a helper method

vars == <<pc, args, self, dirs, auth_exists, os_environ, calls, locals,
          metadata, metadata_writes, exc, ret>>

-----------------------------------------------------------------------------
(* Bounds of the model *)

\* longest generated model_name
MaxNameLen == 4
\* deepest logs_dir: number of directories in [logs_dir, *logs_dir.parents]
MaxDirs == 9
\* most config.json files present on the chain of directories at start
MaxConfigFiles == 2

-----------------------------------------------------------------------------
(* Python values *)

V(kind, b, n, s) == [kind |-> kind, b |-> b, n |-> n, s |-> s]
PyNone == V("none", FALSE, 0, <<>>)
PyBool(b) == V("bool", b, 0, <<>>)
PyNum(n) == V("num", FALSE, n, <<>>)
PyStr(s) == V("str", FALSE, 0, s)
\* a value that is none of the above, such as a list
PyOther == V("other", FALSE, 0, <<>>)

\* bool(value) for the values the adapter tests for truth
Truthy(v) ==
    CASE v.kind = "none" -> FALSE
      [] v.kind = "bool" -> v.b
      [] v.kind = "num" -> v.n # 0
      [] v.kind = "str" -> v.s # <<>>
      [] OTHER -> TRUE

Whitespace == {" ", "\t"}

LowerOf ==
    [c \in {"A", "E", "F", "G", "H", "I", "L", "M", "N", "O", "P", "R", "S",
            "T", "U", "X", "Y"} |->
        CASE c = "A" -> "a" [] c = "E" -> "e" [] c = "F" -> "f"
          [] c = "G" -> "g" [] c = "H" -> "h" [] c = "I" -> "i"
          [] c = "L" -> "l" [] c = "M" -> "m" [] c = "N" -> "n"
          [] c = "O" -> "o" [] c = "P" -> "p" [] c = "R" -> "r"
          [] c = "S" -> "s" [] c = "T" -> "t" [] c = "U" -> "u"
          [] c = "X" -> "x" [] c = "Y" -> "y"]

\* str.lower
Lower(s) == [i \in 1..Len(s) |-> IF s[i] \in DOMAIN LowerOf THEN LowerOf[s[i]] ELSE s[i]]

RECURSIVE LStrip(_)
LStrip(s) == IF s # <<>> /\ Head(s) \in Whitespace THEN LStrip(Tail(s)) ELSE s

RECURSIVE RStrip(_)
RStrip(s) ==
    IF s # <<>> /\ s[Len(s)] \in Whitespace
    THEN RStrip(SubSeq(s, 1, Len(s) - 1))
    ELSE s

\* str.strip
Strip(s) == RStrip(LStrip(s))

\* str.find("/") as a 1-based index, 0 when there is none
RECURSIVE FindSlash(_, _)
FindSlash(s, i) ==
    IF i > Len(s) THEN 0
    ELSE IF s[i] = "/" THEN i
    ELSE FindSlash(s, i + 1)

-----------------------------------------------------------------------------
(* Class constants *)

W_low == <<"l", "o", "w">>
W_medium == <<"m", "e", "d", "i", "u", "m">>
W_high == <<"h", "i", "g", "h">>
W_xhigh == <<"x", "h", "i", "g", "h">>
W_off == <<"o", "f", "f">>
W_auto == <<"a", "u", "t", "o">>
W_on == <<"o", "n">>
W_openai == <<"o", "p", "e", "n", "a", "i">>

SUPPORTED_REASONING_LEVELS == {W_low, W_medium, W_high, W_xhigh}
SUPPORTED_EXPERIMENTAL_OPENAI_WEBSOCKET_MODES == {W_off, W_auto, W_on}
SUPPORTED_PROMPT_PROGRESS_STDERR_MODES == {W_off, W_auto, W_on}

\* search_dirs[:8]
SCAN_LIMIT == 8

-----------------------------------------------------------------------------
(* Results of calls that may raise *)

Ok(v) == [exc |-> "none", val |-> v]
Raise(e) == [exc |-> e, val |-> PyNone]

-----------------------------------------------------------------------------
(* The normalizers of the constructor *)

_normalize_reasoning(value) ==
    IF value.kind = "none" THEN Ok(PyNone)
    ELSE LET normalized == Lower(Strip(value.s)) IN
         IF normalized = <<>> THEN Ok(PyNone)
         ELSE IF normalized \notin SUPPORTED_REASONING_LEVELS THEN Raise("ValueError")
         ELSE Ok(PyStr(normalized))

_normalize_experimental_openai_websocket_mode(value) ==
    IF value.kind = "none" THEN Ok(PyNone)
    ELSE LET normalized == Lower(Strip(value.s)) IN
         IF normalized = <<>> THEN Ok(PyNone)
         ELSE IF normalized \notin SUPPORTED_EXPERIMENTAL_OPENAI_WEBSOCKET_MODES
              THEN Raise("ValueError")
         ELSE Ok(PyStr(normalized))

\* the bug of comparing the string without strip().lower()
M_parse_boolish_exact(value) ==
    IF value.kind = "bool" THEN value
    ELSE IF value.kind = "num" THEN
        IF value.n = 1 THEN PyBool(TRUE)
        ELSE IF value.n = 0 THEN PyBool(FALSE)
        ELSE PyNone
    ELSE IF value.kind # "str" THEN PyNone
    ELSE IF value.s \in {<<"1">>, <<"t", "r", "u", "e">>, <<"y", "e", "s">>, W_on}
         THEN PyBool(TRUE)
         ELSE IF value.s \in {<<"0">>, <<"f", "a", "l", "s", "e">>, <<"n", "o">>, W_off}
         THEN PyBool(FALSE)
         ELSE PyNone

\* returns PyBool(..) or PyNone
_parse_boolish(value) ==
    IF value.kind = "bool" THEN value
    ELSE IF value.kind = "num" THEN
        IF value.n = 1 THEN PyBool(TRUE)
        ELSE IF value.n = 0 THEN PyBool(FALSE)
        ELSE PyNone
    ELSE IF value.kind # "str" THEN PyNone
    ELSE LET normalized == Lower(Strip(value.s)) IN
         IF normalized \in {<<"1">>, <<"t", "r", "u", "e">>, <<"y", "e", "s">>, W_on}
         THEN PyBool(TRUE)
         ELSE IF normalized \in {<<"0">>, <<"f", "a", "l", "s", "e">>, <<"n", "o">>, W_off}
         THEN PyBool(FALSE)
         ELSE PyNone

_normalize_prompt_progress_stderr(value) ==
    IF value.kind = "none" THEN Ok(PyStr(W_auto))
    ELSE LET parsed == _parse_boolish(value) IN
         IF parsed.kind # "none"
         THEN Ok(PyStr(IF parsed.b THEN W_on ELSE W_off))
         ELSE IF value.kind # "str" THEN Raise("ValueError")
         ELSE LET normalized == Lower(Strip(value.s)) IN
              IF normalized = <<>> \/ normalized = W_auto THEN Ok(PyStr(W_auto))
              ELSE IF normalized \in SUPPORTED_PROMPT_PROGRESS_STDERR_MODES
                   THEN Ok(PyStr(normalized))
              ELSE Raise("ValueError")

-----------------------------------------------------------------------------
(* Debug-flag scan.  A directory's config.json is                          *)
(*   file = "absent"    no regular file of that name                       *)
(*   file = "malformed" read_text or json.loads raises                     *)
(*   file = "nonobject" JSON that is not an object                         *)
(*   file = "object"    a JSON object; has_debug tells whether it has the  *)
(*                      "debug" key and debug is that key's value          *)

ConfigFile(file, has_debug, debug) ==
    [file |-> file, has_debug |-> has_debug, debug |-> debug]
NoConfig == ConfigFile("absent", FALSE, PyNone)
Malformed == ConfigFile("malformed", FALSE, PyNone)
NonObject == ConfigFile("nonobject", FALSE, PyNone)
NoDebugKey == ConfigFile("object", FALSE, PyNone)
DebugIs(v) == ConfigFile("object", TRUE, v)

\* the for loop over search_dirs[:8], from index i on
RECURSIVE ScanFrom(_, _)
ScanFrom(search_dirs, i) ==
    IF i > Len(search_dirs) THEN FALSE
    ELSE LET config == search_dirs[i] IN
         IF config.file = "absent" THEN ScanFrom(search_dirs, i + 1)
         ELSE IF config.file = "malformed" THEN ScanFrom(search_dirs, i + 1)
         ELSE IF config.file # "object" \/ ~config.has_debug
              THEN ScanFrom(search_dirs, i + 1)
         ELSE _parse_boolish(config.debug) = PyBool(TRUE)

\* the bug of scanning every ancestor, without the [:8]
M_detect_harbor_job_debug_unlimited(search_dirs) == ScanFrom(search_dirs, 1)

_detect_harbor_job_debug(search_dirs) ==
    ScanFrom(SubSeq(search_dirs, 1, IF Len(search_dirs) < SCAN_LIMIT
                                    THEN Len(search_dirs) ELSE SCAN_LIMIT), 1)

-----------------------------------------------------------------------------
(* Model selector and model-config document *)

Selector(provider, name) == [present |-> TRUE, provider |-> provider, name |-> name]
NoSelector == [present |-> FALSE, provider |-> <<>>, name |-> <<>>]

\* the bug of splitting at the last "/" (rsplit) instead of the first
M_resolve_model_selector_rsplit(model_name) ==
    IF ~Truthy(model_name) THEN NoSelector
    ELSE LET s == model_name.s
             slashes == {k \in 1..Len(s) : s[k] = "/"}
             i == IF slashes = {} THEN 0 ELSE CHOOSE k \in slashes : \A j \in slashes : j <= k
             provider == Strip(IF i > 0 THEN SubSeq(s, 1, i - 1) ELSE W_openai)
             name == Strip(IF i > 0 THEN SubSeq(s, i + 1, Len(s)) ELSE s)
         IN  IF provider = <<>> \/ name = <<>> THEN NoSelector
             ELSE Selector(provider, name)

_resolve_model_selector(model_name) ==
    IF ~Truthy(model_name) THEN NoSelector
    ELSE LET s == model_name.s
             i == FindSlash(s, 1)
             provider == Strip(IF i > 0 THEN SubSeq(s, 1, i - 1) ELSE W_openai)
             name == Strip(IF i > 0 THEN SubSeq(s, i + 1, Len(s)) ELSE s)
         IN  IF provider = <<>> \/ name = <<>> THEN NoSelector
             ELSE Selector(provider, name)

\* what _model_config_json returns when it returns None, and when it raises
NoDoc == [version |-> 0]
ConfigResult(e, none, doc) == [exc |-> e, none |-> none, doc |-> doc]

\* the dict handed to json.dumps; the returned text is its indented serialization
ConfigDict(provider, name, reasoning, experimental) ==
    LET model == IF Truthy(reasoning)
                 THEN [provider |-> provider, name |-> name, reasoning |-> reasoning.s]
                 ELSE [provider |-> provider, name |-> name]
    IN  IF Truthy(experimental)
        THEN [version |-> 1, model |-> model,
              experimental |-> [openai |-> [websocket_mode |-> experimental.s]]]
        ELSE [version |-> 1, model |-> model]

\* the bug of accepting an experimental mode with any provider
M_model_config_json_any_provider(me) ==
    LET selector == _resolve_model_selector(me.model_name) IN
    IF ~selector.present THEN
        IF Truthy(me._reasoning) \/ Truthy(me._experimental_openai_websocket_mode)
        THEN ConfigResult("ValueError", FALSE, NoDoc)
        ELSE ConfigResult("none", TRUE, NoDoc)
    ELSE ConfigResult("none", FALSE,
                      ConfigDict(selector.provider, selector.name, me._reasoning,
                                 me._experimental_openai_websocket_mode))

\* the bug of returning None, without raising, when no selector resolves
M_model_config_json_no_selector_none(me) ==
    LET selector == _resolve_model_selector(me.model_name) IN
    IF ~selector.present THEN ConfigResult("none", TRUE, NoDoc)
    ELSE IF Truthy(me._experimental_openai_websocket_mode) /\ selector.provider # W_openai
         THEN ConfigResult("ValueError", FALSE, NoDoc)
    ELSE ConfigResult("none", FALSE,
                      ConfigDict(selector.provider, selector.name, me._reasoning,
                                 me._experimental_openai_websocket_mode))

_model_config_json(me) ==
    LET selector == _resolve_model_selector(me.model_name) IN
    IF ~selector.present THEN
        IF Truthy(me._reasoning) \/ Truthy(me._experimental_openai_websocket_mode)
        THEN ConfigResult("ValueError", FALSE, NoDoc)
        ELSE ConfigResult("none", TRUE, NoDoc)
    ELSE IF Truthy(me._experimental_openai_websocket_mode) /\ selector.provider # W_openai
         THEN ConfigResult("ValueError", FALSE, NoDoc)
    ELSE ConfigResult("none", FALSE,
                      ConfigDict(selector.provider, selector.name, me._reasoning,
                                 me._experimental_openai_websocket_mode))

_should_emit_prompt_progress_stderr(me) ==
    IF me._prompt_progress_stderr_mode = PyStr(W_on) THEN TRUE
    ELSE IF me._prompt_progress_stderr_mode = PyStr(W_off) THEN FALSE
    ELSE me._harbor_job_debug

-----------------------------------------------------------------------------
(* The instance and the objects it talks to *)

Self(model_name, reasoning, experimental, mode, debug) ==
    [model_name |-> model_name,
     _reasoning |-> reasoning,
     _experimental_openai_websocket_mode |-> experimental,
     _prompt_progress_stderr_mode |-> mode,
     _harbor_job_debug |-> debug]
NoSelf == Self(PyNone, PyNone, PyNone, PyNone, FALSE)

Args(model_name, reasoning, experimental, progress) ==
    [model_name |-> model_name,
     reasoning |-> reasoning,
     experimental_openai_websocket_mode |-> experimental,
     prompt_progress_stderr |-> progress]
NoArgs == Args(PyNone, PyNone, PyNone, PyNone)

\* environment.exec(command=..., env=...) and environment.upload_file(...)
\* a call is pending until the awaited result arrives; return_code is the
\* result's return_code from then on
ExecCall(cmd, env) ==
    [op |-> "exec", cmd |-> cmd, env |-> env, returned |-> FALSE, return_code |-> 0]
UploadCall ==
    [op |-> "upload_file", cmd |-> "auth.json", env |-> {}, returned |-> FALSE,
     return_code |-> 0]
\* the pending call, which is the last one, returns
Returned(cs, rc) ==
    [cs EXCEPT ![Len(cs)] = [@ EXCEPT !.returned = TRUE, !.return_code = rc]]

ApiKeys == {"OPENAI_API_KEY", "ANTHROPIC_API_KEY", "OPENROUTER_API_KEY"}
ReturnCodes == {0, 1, 127}

NoLocals == [prompt_progress_stderr_enabled |-> FALSE, env_vars |-> {}]
NoMetadata == [assigned |-> FALSE]
NoRet == [fn |-> "none", exc |-> "none", none |-> TRUE, sel |-> NoSelector, doc |-> NoDoc]

Metadata(me, enabled, uploaded, rc) ==
    [assigned |-> TRUE,
     agent |-> "codelia",
     model_name |-> me.model_name,
     reasoning |-> me._reasoning,
     experimental_openai_websocket_mode |-> me._experimental_openai_websocket_mode,
     prompt_progress_stderr_mode |-> me._prompt_progress_stderr_mode,
     prompt_progress_stderr_enabled |-> enabled,
     harbor_debug |-> me._harbor_job_debug,
     auth_file_uploaded |-> uploaded,
     return_code |-> rc]

-----------------------------------------------------------------------------
(* __init__ *)

Construct(a) ==
    /\ pc = "new"
    /\ args' = a
    /\ LET reasoning == _normalize_reasoning(a.reasoning)
           experimental ==
               _normalize_experimental_openai_websocket_mode(
                   a.experimental_openai_websocket_mode)
           mode == _normalize_prompt_progress_stderr(a.prompt_progress_stderr)
       IN  IF reasoning.exc # "none" \/ experimental.exc # "none" \/ mode.exc # "none"
           THEN /\ pc' = "ctor_raised"
                /\ exc' = "ValueError"
                /\ self' = self
           ELSE /\ pc' = "constructed"
                /\ exc' = "none"
                /\ self' = Self(a.model_name, reasoning.val, experimental.val, mode.val,
                                _detect_harbor_job_debug(dirs))
    /\ UNCHANGED <<dirs, auth_exists, os_environ, calls, locals, metadata,
                   metadata_writes, ret>>

-----------------------------------------------------------------------------
(* setup, split at its awaits *)

\* up to `await environment.exec(command=prep_and_install_cmd)`
SetupStart ==
    /\ pc = "constructed"
    /\ calls' = Append(calls, ExecCall("install", {}))
    /\ pc' = "setup_await_install"
    /\ UNCHANGED <<args, self, dirs, auth_exists, os_environ, locals, metadata,
                   metadata_writes, exc, ret>>

\* the bug of uploading the auth file before looking at the return code
M_SetupInstallDone_upload_first(rc) ==
    /\ pc = "setup_await_install"
    /\ IF auth_exists
       THEN /\ pc' = "setup_await_upload"
            /\ exc' = exc
            /\ calls' = Append(Returned(calls, rc), UploadCall)
       ELSE IF rc # 0
       THEN /\ pc' = "setup_raised"
            /\ exc' = "RuntimeError"
            /\ calls' = Returned(calls, rc)
       ELSE /\ pc' = "setup_returned"
            /\ exc' = exc
            /\ calls' = Returned(calls, rc)
    /\ UNCHANGED <<args, self, dirs, auth_exists, os_environ, locals, metadata,
                   metadata_writes, ret>>

\* the install exec returns rc: raise, or upload the auth file, or return
SetupInstallDone(rc) ==
    /\ pc = "setup_await_install"
    /\ IF rc # 0
       THEN /\ pc' = "setup_raised"
            /\ exc' = "RuntimeError"
            /\ calls' = Returned(calls, rc)
       ELSE IF auth_exists
       THEN /\ pc' = "setup_await_upload"
            /\ exc' = exc
            /\ calls' = Append(Returned(calls, rc), UploadCall)
       ELSE /\ pc' = "setup_returned"
            /\ exc' = exc
            /\ calls' = Returned(calls, rc)
    /\ UNCHANGED <<args, self, dirs, auth_exists, os_environ, locals, metadata,
                   metadata_writes, ret>>

SetupUploadDone ==
    /\ pc = "setup_await_upload"
    /\ pc' = "setup_returned"
    /\ calls' = Returned(calls, 0)
    /\ UNCHANGED <<args, self, dirs, auth_exists, os_environ, locals, metadata,
                   metadata_writes, exc, ret>>

-----------------------------------------------------------------------------
(* run, split at its awaits *)

\* the loop over the three API-key variables, then
\* `await environment.exec(command=run_cmd, env=env_vars)`
IssueAgentExec(done, env_vars) ==
    /\ calls' = Append(done, ExecCall("run", env_vars \cup os_environ))
    /\ pc' = "run_await_agent"

\* from the start of run to its first await, or to the ValueError of
\* _model_config_json
RunStart ==
    /\ pc = "setup_returned"
    /\ LET enabled == _should_emit_prompt_progress_stderr(self)
           env_vars == {"CODELIA_LAYOUT"} \cup
                       (IF enabled THEN {"CODELIA_PROMPT_PROGRESS_STDERR"} ELSE {})
           model_config_json == _model_config_json(self)
       IN  /\ locals' = [prompt_progress_stderr_enabled |-> enabled,
                         env_vars |-> env_vars]
           /\ IF model_config_json.exc # "none"
              THEN /\ pc' = "run_raised"
                   /\ exc' = model_config_json.exc
                   /\ calls' = calls
              ELSE IF ~model_config_json.none
              THEN /\ pc' = "run_await_write"
                   /\ exc' = exc
                   /\ calls' = Append(calls, ExecCall("write_config", {}))
              ELSE /\ exc' = exc
                   /\ IssueAgentExec(calls, env_vars)
    /\ UNCHANGED <<args, self, dirs, auth_exists, os_environ, metadata,
                   metadata_writes, ret>>

\* the bug of recording the metadata when the config write fails
M_RunWriteDone_records_metadata(rc) ==
    /\ pc = "run_await_write"
    /\ IF rc # 0
       THEN /\ pc' = "run_raised"
            /\ exc' = "RuntimeError"
            /\ calls' = Returned(calls, rc)
            /\ locals' = locals
            /\ metadata' = Metadata(self, locals.prompt_progress_stderr_enabled,
                                    auth_exists, rc)
            /\ metadata_writes' = metadata_writes + 1
       ELSE LET env_vars == locals.env_vars \cup {"CODELIA_CONFIG_PATH"} IN
            /\ exc' = exc
            /\ locals' = [locals EXCEPT !.env_vars = env_vars]
            /\ IssueAgentExec(Returned(calls, rc), env_vars)
            /\ UNCHANGED <<metadata, metadata_writes>>
    /\ UNCHANGED <<args, self, dirs, auth_exists, os_environ, ret>>

\* the bug of not looking at the config write's return code
M_RunWriteDone_ignores_rc(rc) ==
    /\ pc = "run_await_write"
    /\ LET env_vars == locals.env_vars \cup {"CODELIA_CONFIG_PATH"} IN
       /\ exc' = exc
       /\ locals' = [locals EXCEPT !.env_vars = env_vars]
       /\ IssueAgentExec(Returned(calls, rc), env_vars)
    /\ UNCHANGED <<args, self, dirs, auth_exists, os_environ, metadata,
                   metadata_writes, ret>>

\* the config-write exec returns rc
RunWriteDone(rc) ==
    /\ pc = "run_await_write"
    /\ IF rc # 0
       THEN /\ pc' = "run_raised"
            /\ exc' = "RuntimeError"
            /\ calls' = Returned(calls, rc)
            /\ locals' = locals
       ELSE LET env_vars == locals.env_vars \cup {"CODELIA_CONFIG_PATH"} IN
            /\ exc' = exc
            /\ locals' = [locals EXCEPT !.env_vars = env_vars]
            /\ IssueAgentExec(Returned(calls, rc), env_vars)
    /\ UNCHANGED <<args, self, dirs, auth_exists, os_environ, metadata,
                   metadata_writes, ret>>

\* the bug of raising on a nonzero return code before assigning the metadata
M_RunAgentDone_raise_first(rc) ==
    /\ pc = "run_await_agent"
    /\ calls' = Returned(calls, rc)
    /\ IF rc # 0
       THEN /\ pc' = "run_raised"
            /\ exc' = "RuntimeError"
            /\ UNCHANGED <<metadata, metadata_writes>>
       ELSE /\ pc' = "run_returned"
            /\ exc' = exc
            /\ metadata' = Metadata(self, locals.prompt_progress_stderr_enabled,
                                    auth_exists, rc)
            /\ metadata_writes' = metadata_writes + 1
    /\ UNCHANGED <<args, self, dirs, auth_exists, os_environ, locals, ret>>

\* the agent exec returns rc: assign context.metadata, then return or raise
RunAgentDone(rc) ==
    /\ pc = "run_await_agent"
    /\ calls' = Returned(calls, rc)
    /\ metadata' = Metadata(self, locals.prompt_progress_stderr_enabled, auth_exists, rc)
    /\ metadata_writes' = metadata_writes + 1
    /\ IF rc # 0
       THEN pc' = "run_raised" /\ exc' = "RuntimeError"
       ELSE pc' = "run_returned" /\ exc' = exc
    /\ UNCHANGED <<args, self, dirs, auth_exists, os_environ, locals, ret>>

-----------------------------------------------------------------------------
(* What happens outside the adapter *)

AuthFileCreate ==
    /\ ~auth_exists
    /\ auth_exists' = TRUE
    /\ UNCHANGED <<pc, args, self, dirs, os_environ, calls, locals, metadata,
                   metadata_writes, exc, ret>>

AuthFileDelete ==
    /\ auth_exists
    /\ auth_exists' = FALSE
    /\ UNCHANGED <<pc, args, self, dirs, os_environ, calls, locals, metadata,
                   metadata_writes, exc, ret>>

\* somebody rewrites or removes directory i's config.json after construction
ConfigChange(i, c) ==
    /\ pc \notin {"new", "ctor_raised", "helper"}
    /\ i \in 1..Len(dirs)
    /\ dirs[i] # c
    /\ dirs' = [dirs EXCEPT ![i] = c]
    /\ UNCHANGED <<pc, args, self, auth_exists, os_environ, calls, locals, metadata,
                   metadata_writes, exc, ret>>

-----------------------------------------------------------------------------
(* Direct calls of the helper methods on a constructed instance *)

CallResolveModelSelector ==
    /\ pc = "helper"
    /\ ret' = [fn |-> "_resolve_model_selector", exc |-> "none", none |-> FALSE,
               sel |-> _resolve_model_selector(self.model_name), doc |-> NoDoc]
    /\ UNCHANGED <<pc, args, self, dirs, auth_exists, os_environ, calls, locals,
                   metadata, metadata_writes, exc>>

CallModelConfigJson ==
    /\ pc = "helper"
    /\ LET r == _model_config_json(self) IN
       ret' = [fn |-> "_model_config_json", exc |-> r.exc, none |-> r.none,
               sel |-> NoSelector, doc |-> r.doc]
    /\ UNCHANGED <<pc, args, self, dirs, auth_exists, os_environ, calls, locals,
                   metadata, metadata_writes, exc>>

-----------------------------------------------------------------------------
(* Inputs *)

SeqsUpTo(S, n) == UNION {[1..k -> S] : k \in 0..n}

NameAlphabet == {" ", "/", "a", "b"}
N_gpt5 == <<"g", "p", "t", "-", "5">>
N_openai_gpt5 == W_openai \o <<"/">> \o N_gpt5
N_anthropic_claude == <<"a", "n", "t", "h", "r", "o", "p", "i", "c", "/",
                        "c", "l", "a", "u", "d", "e", "-", "x">>
\* " openai / gpt-5 ", "OpenAI/gpt-5", "openrouter/openai/gpt-5" in short: "or/openai/gpt-5"
N_padded == <<" ">> \o W_openai \o <<" ", "/", " ">> \o N_gpt5 \o <<" ">>
N_OpenAI == <<"O", "p", "e", "n", "A", "I", "/">> \o N_gpt5
N_nested == <<"o", "r", "/">> \o N_openai_gpt5
NamedModels ==
    {N_gpt5, N_openai_gpt5, N_anthropic_claude, N_padded, N_OpenAI, N_nested,
     <<"/">> \o N_gpt5, W_openai \o <<"/">>}

\* model names of the helper calls: None, every short string, the named ones
ModelNameInputs ==
    {PyNone} \cup {PyStr(s) : s \in SeqsUpTo(NameAlphabet, MaxNameLen) \cup NamedModels}

\* values a JSON "debug" key or the prompt_progress_stderr argument may hold
Pads == {<<>>, <<" ">>, <<"\t", " ">>}
UpperOf == [c \in {LowerOf[u] : u \in DOMAIN LowerOf} |->
               CHOOSE u \in DOMAIN LowerOf : LowerOf[u] = c]
Upper(s) == [i \in 1..Len(s) |-> IF s[i] \in DOMAIN UpperOf THEN UpperOf[s[i]] ELSE s[i]]
Capitalize(s) == IF s = <<>> THEN s ELSE Upper(<<Head(s)>>) \o Tail(s)
Words ==
    {<<"1">>, <<"t", "r", "u", "e">>, <<"y", "e", "s">>, W_on,
     <<"0">>, <<"f", "a", "l", "s", "e">>, <<"n", "o">>, W_off,
     W_auto, <<>>, <<"2">>, <<"o", " ", "n">>, <<"o", "n", "e">>,
     <<"m", "a", "y", "b", "e">>}
StringInputs ==
    {l \o w \o r : l \in Pads, r \in Pads,
                   w \in UNION {{x, Upper(x), Capitalize(x)} : x \in Words}}
ProgressInputs ==
    {PyNone, PyBool(TRUE), PyBool(FALSE), PyOther}
    \cup {PyNum(n) : n \in -1..2}
    \cup {PyStr(s) : s \in StringInputs}

\* constructor arguments of the lifecycle runs
CtorArgs ==
    {Args(m, r, e, p) :
        m \in {PyNone, PyStr(N_gpt5), PyStr(N_openai_gpt5), PyStr(N_anthropic_claude),
               PyStr(<<"/">> \o N_gpt5), PyStr(<<" ", " ">>)},
        r \in {PyNone, PyStr(<<" ">> \o Capitalize(W_high)), PyStr(<<"m", "a", "x">>)},
        e \in {PyNone, PyStr(Upper(W_on)), PyStr(<<"f", "a", "s", "t">>)},
        p \in {PyStr(W_auto), PyBool(TRUE), PyStr(<<"m", "a", "y", "b", "e">>)}}

ProgressArgs == {Args(PyStr(N_gpt5), PyNone, PyNone, p) : p \in ProgressInputs}

DebugArgs == {Args(PyStr(N_gpt5), PyNone, PyNone, PyStr(W_auto))}

\* config.json contents
SmallKinds == {NoConfig, DebugIs(PyBool(TRUE)), DebugIs(PyBool(FALSE))}
FileKinds ==
    {Malformed, NonObject, NoDebugKey, DebugIs(PyBool(TRUE)), DebugIs(PyBool(FALSE))}

SmallFs == {<<k>> : k \in SmallKinds}

\* a chain of up to MaxDirs directories holding up to MaxConfigFiles config.json
\* files, or a logs_dir without ancestors whose config.json has any "debug" value
RichFs(fs) ==
    \/ \E n \in 1..MaxDirs :
         \E P \in {Q \in SUBSET (1..n) : Cardinality(Q) <= MaxConfigFiles} :
           \E k \in [P -> FileKinds] :
             fs = [i \in 1..n |-> IF i \in P THEN k[i] ELSE NoConfig]
    \/ \E v \in ProgressInputs : fs = <<DebugIs(v)>>

-----------------------------------------------------------------------------
(* Specifications *)

InitWith(auths, envs) ==
    /\ pc = "new"
    /\ args = NoArgs
    /\ self = NoSelf
    /\ auth_exists \in auths
    /\ os_environ \in envs
    /\ calls = <<>>
    /\ locals = NoLocals
    /\ metadata = NoMetadata
    /\ metadata_writes = 0
    /\ exc = "none"
    /\ ret = NoRet

Setup == SetupStart \/ (\E rc \in ReturnCodes : SetupInstallDone(rc)) \/ SetupUploadDone
Run ==
    \/ RunStart
    \/ \E rc \in ReturnCodes : RunWriteDone(rc)
    \/ \E rc \in ReturnCodes : RunAgentDone(rc)

\* the lifecycle: __init__, setup, run, with the files changing underneath
Init == dirs \in SmallFs /\ InitWith(BOOLEAN, SUBSET ApiKeys)
Next ==
    \/ \E a \in CtorArgs : Construct(a)
    \/ Setup
    \/ Run
    \/ AuthFileCreate
    \/ AuthFileDelete
    \/ \E i \in 1..Len(dirs), c \in SmallKinds : ConfigChange(i, c)
Spec == Init /\ [][Next]_vars

\* the lifecycle over every prompt_progress_stderr argument
InitProgress == dirs \in SmallFs /\ InitWith({TRUE}, {{}})
NextProgress ==
    \/ \E a \in ProgressArgs : Construct(a)
    \/ Setup
    \/ Run
    \/ \E c \in SmallKinds : ConfigChange(1, c)
SpecProgress == InitProgress /\ [][NextProgress]_vars

\* the lifecycle over deep chains of directories
InitDebug == RichFs(dirs) /\ InitWith({TRUE}, {{}})
NextDebug ==
    \/ \E a \in DebugArgs : Construct(a)
    \/ Setup
    \/ Run
    \/ \E c \in SmallKinds : ConfigChange(1, c)
SpecDebug == InitDebug /\ [][NextDebug]_vars

\* direct calls of _resolve_model_selector and _model_config_json
InitHelper ==
    /\ pc = "helper"
    /\ args = NoArgs
    /\ self \in {Self(m, r, e, PyStr(W_auto), FALSE) :
                    m \in ModelNameInputs,
                    r \in {PyNone, PyStr(W_high)},
                    e \in {PyNone, PyStr(W_on), PyStr(W_off)}}
    /\ dirs = <<NoConfig>>
    /\ auth_exists = FALSE
    /\ os_environ = {}
    /\ calls = <<>>
    /\ locals = NoLocals
    /\ metadata = NoMetadata
    /\ metadata_writes = 0
    /\ exc = "none"
    /\ ret = NoRet
NextHelper == CallResolveModelSelector \/ CallModelConfigJson
SpecHelper == InitHelper /\ [][NextHelper]_vars

-----------------------------------------------------------------------------
(* Vocabulary of the properties, stated without the adapter's code *)

AllWhitespace(s) == \A k \in 1..Len(s) : s[k] \in Whitespace

\* t is s without its leading and trailing whitespace
IsTrimOf(t, s) ==
    \E i \in 0..Len(s), j \in 0..Len(s) :
        /\ i <= j
        /\ t = SubSeq(s, i + 1, j)
        /\ \A k \in 1..i : s[k] \in Whitespace
        /\ \A k \in (j + 1)..Len(s) : s[k] \in Whitespace
        /\ t # <<>> => t[1] \notin Whitespace /\ t[Len(t)] \notin Whitespace

\* t is the lower-case word w in some casing
SameIgnoringCase(t, w) ==
    /\ Len(t) = Len(w)
    /\ \A k \in 1..Len(w) :
          t[k] = w[k] \/ (w[k] \in DOMAIN UpperOf /\ t[k] = UpperOf[w[k]])

\* the string s is the word w in any casing, with any surrounding whitespace
MatchesWord(s, w) ==
    \E i \in 0..Len(s), j \in 0..Len(s) :
        i <= j /\ IsTrimOf(SubSeq(s, i + 1, j), s) /\ SameIgnoringCase(SubSeq(s, i + 1, j), w)

TrueWords == {<<"1">>, <<"t", "r", "u", "e">>, <<"y", "e", "s">>, <<"o", "n">>}
FalseWords == {<<"0">>, <<"f", "a", "l", "s", "e">>, <<"n", "o">>, <<"o", "f", "f">>}

TrueLike(v) ==
    \/ v.kind = "bool" /\ v.b
    \/ v.kind = "num" /\ v.n = 1
    \/ v.kind = "str" /\ \E w \in TrueWords : MatchesWord(v.s, w)
FalseLike(v) ==
    \/ v.kind = "bool" /\ ~v.b
    \/ v.kind = "num" /\ v.n = 0
    \/ v.kind = "str" /\ \E w \in FalseWords : MatchesWord(v.s, w)
AutoLike(v) ==
    \/ v.kind = "none"
    \/ v.kind = "str" /\ (AllWhitespace(v.s) \/ MatchesWord(v.s, <<"a", "u", "t", "o">>))

\* an optional string argument that is given and not blank
Supplied(v) == v.kind = "str" /\ ~AllWhitespace(v.s)

RunEnded == pc \in {"run_returned", "run_raised"}
\* the exec calls that run has issued, in order
RunCalls == SelectSeq(calls, LAMBDA c : c.cmd \in {"write_config", "run"})
UploadCalls == SelectSeq(calls, LAMBDA c : c.op = "upload_file")
InstallCalls == SelectSeq(calls, LAMBDA c : c.cmd = "install")

-----------------------------------------------------------------------------
(* C7, under SpecHelper *)

\* C7: _resolve_model_selector splits the model name at its first "/" into
\* (provider, name), takes ("openai", name) for a name without "/", trims both
\* parts, and gives no selector exactly when the name is None or empty or one
\* of the two parts is blank.
C7_SelectorResolution ==
    ret.fn = "_resolve_model_selector" =>
        LET m == self.model_name
            s == m.s
            slashes == {k \in 1..Len(s) : s[k] = "/"}
            first == CHOOSE k \in slashes : \A j \in slashes : k <= j
            before == IF slashes # {} THEN SubSeq(s, 1, first - 1)
                      ELSE <<"o", "p", "e", "n", "a", "i">>
            after == IF slashes # {} THEN SubSeq(s, first + 1, Len(s)) ELSE s
            absent == m.kind = "none" \/ s = <<>> \/ AllWhitespace(before)
                      \/ AllWhitespace(after)
        IN  /\ ret.sel.present <=> ~absent
            /\ ret.sel.present =>
                  IsTrimOf(ret.sel.provider, before) /\ IsTrimOf(ret.sel.name, after)

\* " openai / gpt-5 " has resolved to ("openai", "gpt-5")
C7_Witness ==
    /\ ret.fn = "_resolve_model_selector"
    /\ self.model_name = PyStr(N_padded)
    /\ ret.sel = Selector(W_openai, N_gpt5)

-----------------------------------------------------------------------------
(* C6, under SpecHelper *)

\* C6: a request for the model-config document that does not fail returns a
\* document exactly when the selector resolves; the document has version 1,
\* the selector's provider and name, model.reasoning exactly when a reasoning
\* level is set and experimental.openai.websocket_mode exactly when an
\* experimental mode is set; the request fails with ValueError exactly when
\* an experimental mode meets a provider other than "openai", or reasoning or
\* an experimental mode is set and no selector resolves.
C6_ModelConfigDocument ==
    ret.fn = "_model_config_json" =>
        LET sel == _resolve_model_selector(self.model_name)
            r == self._reasoning
            e == self._experimental_openai_websocket_mode
            fails == \/ sel.present /\ e.kind = "str" /\ sel.provider # <<"o", "p", "e", "n", "a", "i">>
                     \/ ~sel.present /\ (r.kind = "str" \/ e.kind = "str")
            doc == ret.doc
        IN  /\ fails <=> ret.exc = "ValueError"
            /\ ~fails => ret.exc = "none" /\ (~ret.none <=> sel.present)
            /\ (ret.exc = "none" /\ ~ret.none) =>
                  /\ doc.version = 1
                  /\ doc.model.provider = sel.provider
                  /\ doc.model.name = sel.name
                  /\ DOMAIN doc.model =
                        {"provider", "name"} \cup (IF r.kind = "str" THEN {"reasoning"} ELSE {})
                  /\ r.kind = "str" => doc.model.reasoning = r.s
                  /\ DOMAIN doc =
                        {"version", "model"} \cup (IF e.kind = "str" THEN {"experimental"} ELSE {})
                  /\ e.kind = "str" =>
                        /\ sel.provider = <<"o", "p", "e", "n", "a", "i">>
                        /\ doc.experimental = [openai |-> [websocket_mode |-> e.s]]

\* "openai/gpt-5" with reasoning high and experimental mode on gave a document
\* with both optional fields
C6_Witness ==
    /\ ret.fn = "_model_config_json"
    /\ self.model_name = PyStr(N_openai_gpt5)
    /\ ret.exc = "none" /\ ~ret.none
    /\ "experimental" \in DOMAIN ret.doc
    /\ "reasoning" \in DOMAIN ret.doc.model

-----------------------------------------------------------------------------
(* Vocabulary of the lifecycle properties *)

\* the exec of the agent invocation has been issued
AgentIssued == \E i \in 1..Len(RunCalls) : RunCalls[i].cmd = "run"

\* the model-config request is rejected for these fields
Rejected(me) ==
    LET sel == _resolve_model_selector(me.model_name)
        r == me._reasoning.kind = "str"
        e == me._experimental_openai_websocket_mode.kind = "str"
    IN  \/ ~sel.present /\ (r \/ e)
        \/ sel.present /\ e /\ sel.provider # <<"o", "p", "e", "n", "a", "i">>

\* constructor arguments with a reasoning level or experimental mode and no
\* resolvable selector, or an experimental mode and a provider other than openai
InvalidCombo(a) ==
    LET sel == _resolve_model_selector(a.model_name)
        r == Supplied(a.reasoning)
        e == Supplied(a.experimental_openai_websocket_mode)
    IN  \/ ~sel.present /\ (r \/ e)
        \/ sel.present /\ e /\ sel.provider # <<"o", "p", "e", "n", "a", "i">>

\* every enumerated argument is blank or one of its allowed values
EnumsValid(a) ==
    /\ Supplied(a.reasoning) =>
          \E w \in {<<"l", "o", "w">>, <<"m", "e", "d", "i", "u", "m">>,
                    <<"h", "i", "g", "h">>, <<"x", "h", "i", "g", "h">>} :
              MatchesWord(a.reasoning.s, w)
    /\ Supplied(a.experimental_openai_websocket_mode) =>
          \E w \in {<<"o", "f", "f">>, <<"a", "u", "t", "o">>, <<"o", "n">>} :
              MatchesWord(a.experimental_openai_websocket_mode.s, w)
    /\ \/ TrueLike(a.prompt_progress_stderr)
       \/ FalseLike(a.prompt_progress_stderr)
       \/ AutoLike(a.prompt_progress_stderr)

-----------------------------------------------------------------------------
(* C1, under Spec *)

\* C1 as stated: whenever run has ended, by return or by raise,
\* context.metadata has been assigned.
C1_Original == RunEnded => metadata.assigned

\* C1: when run has ended, context.metadata has been assigned if the agent
\* exec was issued (whatever its return code), and run has raised with
\* context.metadata unassigned if it ended before issuing the agent exec.
C1_MetadataWhenAgentRan ==
    RunEnded =>
        /\ AgentIssued => metadata.assigned
        /\ ~AgentIssued => ~metadata.assigned /\ pc = "run_raised"

\* run raised after a config write and a failing agent exec, metadata assigned
C1_Witness ==
    /\ pc = "run_raised"
    /\ Len(RunCalls) = 2
    /\ RunCalls[2].return_code = 1
    /\ metadata.assigned

-----------------------------------------------------------------------------
(* C2, under Spec *)

\* C2: while the agent exec is pending context.metadata is unassigned; once
\* it has returned, context.metadata has been assigned exactly once with the
\* exec's return code, and run has raised RuntimeError if that code is
\* nonzero and returned normally if it is 0.
C2_AgentExitRecorded ==
    \A i \in 1..Len(calls) :
        calls[i].cmd = "run" =>
            /\ ~calls[i].returned =>
                  pc = "run_await_agent" /\ ~metadata.assigned /\ metadata_writes = 0
            /\ calls[i].returned =>
                  /\ metadata_writes = 1
                  /\ metadata.assigned
                  /\ metadata.return_code = calls[i].return_code
                  /\ calls[i].return_code # 0 => pc = "run_raised" /\ exc = "RuntimeError"
                  /\ calls[i].return_code = 0 => pc = "run_returned" /\ exc = "none"

\* the agent script exited 127 and run raised with 127 in the metadata
C2_Witness ==
    /\ pc = "run_raised"
    /\ metadata.assigned
    /\ metadata.return_code = 127
    /\ metadata_writes = 1

-----------------------------------------------------------------------------
(* C3, under Spec *)

\* C3 as stated: for constructor arguments with a reasoning level or
\* experimental mode and no resolvable selector, or an experimental mode and
\* a provider other than openai, construction fails and no exec is issued.
C3_Original ==
    (pc # "new" /\ InvalidCombo(args)) => pc = "ctor_raised" /\ calls = <<>>

\* C3: construction fails exactly for an unrecognized enumerated value, and
\* then nothing is called on the environment; the selector-dependent
\* combinations pass construction and setup, and run raises ValueError for
\* them before issuing any exec and without assigning context.metadata.
C3_DeferredToRun ==
    pc # "new" =>
        /\ pc = "ctor_raised" <=> ~EnumsValid(args)
        /\ pc = "ctor_raised" => calls = <<>> /\ exc = "ValueError"
        /\ (InvalidCombo(args) /\ EnumsValid(args)) =>
              /\ RunCalls = <<>>
              /\ pc \notin {"run_await_write", "run_await_agent", "run_returned"}
              /\ pc = "run_raised" => exc = "ValueError" /\ ~metadata.assigned

\* reasoning without a model name: the install exec ran, then run raised
C3_Witness ==
    /\ pc = "run_raised"
    /\ exc = "ValueError"
    /\ InvalidCombo(args)
    /\ Len(calls) >= 1
    /\ calls[1].cmd = "install"

-----------------------------------------------------------------------------
(* C4, under Spec *)

C4_Inv ==
    /\ Len(InstallCalls) <= 1
    /\ Len(UploadCalls) <= 1
    /\ pc = "setup_await_install" => calls = <<ExecCall("install", {})>>
    /\ pc = "setup_raised" =>
          /\ Len(calls) = 1
          /\ calls[1].cmd = "install"
          /\ calls[1].returned /\ calls[1].return_code # 0
          /\ exc = "RuntimeError"
    /\ pc \in {"setup_await_upload", "setup_returned"} =>
          /\ calls[1].cmd = "install"
          /\ calls[1].returned /\ calls[1].return_code = 0
          /\ Len(calls) = 1 + Len(UploadCalls)
          /\ exc = "none"

C4_Act ==
    /\ (pc = "setup_await_install" /\ pc' # pc) =>
          LET rc == calls'[1].return_code IN
          /\ rc # 0 => pc' = "setup_raised" /\ UploadCalls' = <<>>
          /\ (rc = 0 /\ auth_exists) =>
                pc' = "setup_await_upload" /\ Len(UploadCalls') = 1
          /\ (rc = 0 /\ ~auth_exists) =>
                pc' = "setup_returned" /\ UploadCalls' = <<>>
    /\ (pc = "setup_await_upload" /\ pc' # pc) =>
          pc' = "setup_returned" /\ exc' = "none" /\ Len(UploadCalls') = 1

\* C4: setup issues one install exec; a nonzero return code makes it raise
\* with upload_file never called; with return code 0 it calls upload_file
\* once if the auth file exists and not at all otherwise, and returns.
C4_Setup == []C4_Inv /\ [][C4_Act]_vars

\* setup returned after the install exec and one upload
C4_Witness ==
    /\ pc = "setup_returned"
    /\ Len(calls) = 2
    /\ calls[2].op = "upload_file"
    /\ calls[2].returned

-----------------------------------------------------------------------------
(* C5, under Spec *)

RunStates == {"run_await_write", "run_await_agent", "run_returned", "run_raised"}

\* the order of run's execs and the config-path variable
C5_Order ==
    LET rc == RunCalls IN
    /\ \A i \in 1..Len(rc) :
          /\ rc[i].cmd = "write_config" => i = 1
          /\ rc[i].cmd = "run" =>
                /\ i = Len(rc)
                /\ i > 1 => rc[1].returned /\ rc[1].return_code = 0
                /\ "CODELIA_CONFIG_PATH" \in rc[i].env <=>
                      (i > 1 /\ rc[1].cmd = "write_config" /\ rc[1].returned
                       /\ rc[1].return_code = 0)
    /\ (rc # <<>> /\ rc[1].cmd = "write_config" /\ rc[1].returned
        /\ rc[1].return_code # 0) =>
          Len(rc) = 1 /\ pc = "run_raised" /\ exc = "RuntimeError"

\* C5 as stated: with a resolved selector the config-write exec is issued
\* first, and without one exactly one exec, the agent invocation, is issued.
C5_Original ==
    /\ C5_Order
    /\ pc \in RunStates =>
          LET sel == _resolve_model_selector(self.model_name) IN
          /\ sel.present => RunCalls # <<>> /\ RunCalls[1].cmd = "write_config"
          /\ ~sel.present => Len(RunCalls) = 1 /\ RunCalls[1].cmd = "run"

\* C5: run's execs are ordered: if the model-config request is rejected no
\* exec is issued; otherwise with a resolved selector the config-write exec
\* is issued first and must return 0 before the agent exec is issued, a
\* nonzero return makes run raise without the agent exec, and without a
\* selector the agent exec is the only one; the agent's environment has the
\* config-path variable exactly when a config-write exec returned 0.
C5_ExecOrder ==
    /\ C5_Order
    /\ pc \in RunStates =>
          LET sel == _resolve_model_selector(self.model_name) IN
          /\ Rejected(self) => RunCalls = <<>> /\ pc = "run_raised"
          /\ (sel.present /\ ~Rejected(self)) =>
                RunCalls # <<>> /\ RunCalls[1].cmd = "write_config"
          /\ (~sel.present /\ ~Rejected(self)) =>
                Len(RunCalls) = 1 /\ RunCalls[1].cmd = "run"

\* run returned after a config write and the agent exec with the config path
C5_Witness ==
    /\ pc = "run_returned"
    /\ Len(RunCalls) = 2
    /\ RunCalls[1].cmd = "write_config"
    /\ "CODELIA_CONFIG_PATH" \in RunCalls[2].env

-----------------------------------------------------------------------------
(* C10, under Spec *)

\* C10: the metadata's auth_file_uploaded is true exactly when setup called
\* upload_file for this instance.
C10_UploadFlag ==
    (RunEnded /\ metadata.assigned) =>
        (metadata.auth_file_uploaded <=> UploadCalls # <<>>)

-----------------------------------------------------------------------------
(* C8, under SpecProgress *)

\* C8: a boolean-like prompt_progress_stderr argument is stored as "on" or
\* "off", an unset, blank or "auto" one as "auto", and any other argument
\* makes construction raise ValueError, so the stored mode is one of off,
\* auto, on; the agent exec's environment has the progress variable exactly
\* when the mode is "on", or "auto" with the cached debug flag true.
C8_ProgressMode ==
    /\ pc # "new" =>
          LET v == args.prompt_progress_stderr
              mode == self._prompt_progress_stderr_mode
          IN  /\ TrueLike(v) => pc # "ctor_raised" /\ mode = PyStr(<<"o", "n">>)
              /\ FalseLike(v) => pc # "ctor_raised" /\ mode = PyStr(<<"o", "f", "f">>)
              /\ AutoLike(v) => pc # "ctor_raised" /\ mode = PyStr(<<"a", "u", "t", "o">>)
              /\ ~(TrueLike(v) \/ FalseLike(v) \/ AutoLike(v)) =>
                    pc = "ctor_raised" /\ exc = "ValueError"
              /\ pc # "ctor_raised" =>
                    mode \in {PyStr(<<"o", "f", "f">>), PyStr(<<"a", "u", "t", "o">>),
                              PyStr(<<"o", "n">>)}
    /\ \A i \in 1..Len(calls) :
          calls[i].cmd = "run" =>
              ("CODELIA_PROMPT_PROGRESS_STDERR" \in calls[i].env <=>
                  \/ self._prompt_progress_stderr_mode = PyStr(<<"o", "n">>)
                  \/ /\ self._prompt_progress_stderr_mode = PyStr(<<"a", "u", "t", "o">>)
                     /\ self._harbor_job_debug)

\* " YES" was stored as "on" and the agent ran with the progress variable
C8_Witness ==
    /\ args.prompt_progress_stderr = PyStr(<<" ", "Y", "E", "S">>)
    /\ self._prompt_progress_stderr_mode = PyStr(W_on)
    /\ pc = "run_returned"
    /\ "CODELIA_PROMPT_PROGRESS_STDERR" \in calls[Len(calls)].env

-----------------------------------------------------------------------------
(* C9, under SpecDebug *)

\* the directories among the first 8 whose config.json is an object with "debug"
Deciders(fs) == {i \in 1..Len(fs) : i <= 8 /\ fs[i].file = "object" /\ fs[i].has_debug}
\* the value of "debug" in the nearest of them is boolean-true-like
ExpectedDebug(fs) ==
    /\ Deciders(fs) # {}
    /\ TrueLike(fs[CHOOSE i \in Deciders(fs) : \A j \in Deciders(fs) : i <= j].debug)

C9_Act ==
    /\ (pc = "new" /\ pc' = "constructed") =>
          self'._harbor_job_debug = ExpectedDebug(dirs)
    /\ pc # "new" => self'._harbor_job_debug = self._harbor_job_debug
    /\ (pc # "run_await_agent" /\ pc' = "run_await_agent") =>
          ("CODELIA_PROMPT_PROGRESS_STDERR" \in calls'[Len(calls')].env <=>
              \/ self._prompt_progress_stderr_mode = PyStr(<<"o", "n">>)
              \/ /\ self._prompt_progress_stderr_mode = PyStr(<<"a", "u", "t", "o">>)
                 /\ self._harbor_job_debug)
    /\ (~metadata.assigned /\ metadata'.assigned) =>
          metadata'.harbor_debug = self._harbor_job_debug

\* C9: construction sets the debug flag from the nearest of the first 8
\* directories (logs_dir, then its ancestors) whose config.json is a JSON
\* object with a "debug" key, true only if that value is boolean-true-like
\* and false if there is no such directory; the flag never changes afterwards,
\* whatever happens to the files, and run uses the flag.
C9_DebugDetection == [][C9_Act]_vars

\* a "debug": true in the 9th directory was ignored at construction, and one
\* written into logs_dir afterwards did not change what run did
C9_Witness ==
    /\ pc = "run_returned"
    /\ Len(dirs) = 9
    /\ dirs[9] = DebugIs(PyBool(TRUE))
    /\ dirs[1] = DebugIs(PyBool(TRUE))
    /\ ~self._harbor_job_debug
    /\ "CODELIA_PROMPT_PROGRESS_STDERR" \notin calls[Len(calls)].env
    /\ ~metadata.harbor_debug

====
